---- MODULE Spec2Model ----
(***************************************************************************)
(* A model of task_manager: the Task / ToDoItem domain objects, the JSON   *)
(* file repository and the TaskService on top of it.                       *)
(*                                                                         *)
(* Conventions.  A Python Optional[X] is a sequence of length 0 (None) or  *)
(* 1 (the value).  A datetime is a record [ticks, aware]: ticks counts     *)
(* microseconds, UsecPerSec of them to a second, and aware says whether    *)
(* the value carries a UTC offset.  A JSON document is modelled by its     *)
(* value: objects are records, arrays are sequences, null is <<>>.  An     *)
(* ISO-8601 string is the record of its printed parts.  uuid4() is the     *)
(* choice of an identifier that is not in use.                             *)
(***************************************************************************)
EXTENDS Integers, Sequences, FiniteSets, TLC

VARIABLES
    file,    \* the parsed content of tasks.json: a sequence of task dicts
    now,     \* the wall clock, in ticks
    last,    \* the last call made and how it returned
    held     \* the Task objects the caller holds: the one it last wrote to the
             \* repository, or the list a filter returned

vars == <<file, now, last, held>>

\* ------------------------------------------------------------------ bounds

MaxTasks == 3        \* tasks in the store (Spec)
MaxItems == 3        \* items of the task (SpecTodo)
MaxLifeItems == 2    \* items of the task (SpecLife)
MaxClock == 1        \* the last tick of the clock
UsecPerSec == 2      \* ticks to a second
SecPerDay == 1       \* seconds to a day
MaxFilterTasks == 2  \* tasks in the store (SpecFilter)

TaskGuids == 1..MaxTasks
ItemGuids == 1..MaxItems
\* positions asked for: in range, and out of range on both sides
TaskPositions == 0..(MaxTasks + 1)
TaskNewPositions == (-1)..(MaxTasks + 1)
ItemPositions == 0..MaxItems
ItemNewPositions == (-MaxItems)..(MaxItems + 1)

\* ------------------------------------------------------------- domain/state

PENDING == "PENDING"
IN_PROGRESS == "IN_PROGRESS"
COMPLETED == "COMPLETED"
FAILED == "FAILED"
CANCELLED == "CANCELLED"
PAUSED == "PAUSED"

State == {PENDING, IN_PROGRESS, COMPLETED, FAILED, CANCELLED, PAUSED}

\* State.<name>.value
StateValue(s) ==
    CASE s = PENDING -> 1
      [] s = IN_PROGRESS -> 2
      [] s = COMPLETED -> 3
      [] s = FAILED -> 4
      [] s = CANCELLED -> 5
      [] s = PAUSED -> 6

\* State(value)
StateOfValue(v) == CHOOSE s \in State : StateValue(s) = v

\* ---------------------------------------------------------------- datetime

None == <<>>
Some(x) == <<x>>

Datetime(t, aware) == [ticks |-> t, aware |-> aware]

\* datetime.now(): a naive local time
DatetimeNow(clock) == Datetime(clock, FALSE)

\* datetime.isoformat(): the fraction is printed only when it is not zero,
\* the offset only for an aware value
isoformat(d) ==
    [sec |-> d.ticks \div UsecPerSec,
     frac |-> IF d.ticks % UsecPerSec = 0 THEN <<>> ELSE <<d.ticks % UsecPerSec>>,
     offset |-> IF d.aware THEN <<0>> ELSE <<>>]

\* datetime.fromisoformat()
fromisoformat(s) ==
    [ticks |-> s.sec * UsecPerSec + (IF s.frac = <<>> THEN 0 ELSE s.frac[1]),
     aware |-> s.offset # <<>>]

\* x.isoformat() if x else None      (a datetime is always truthy)
OptIsoformat(o) == IF o # None THEN Some(isoformat(o[1])) ELSE None

\* datetime.fromisoformat(data["k"]) if data.get("k") else None
\* (an ISO string is never the empty string)
OptFromisoformat(o) == IF o # None THEN Some(fromisoformat(o[1])) ELSE None

\* ---------------------------------------------------------------- ToDoItem

ToDoItem_create(guid, text, clock) ==
    [guid |-> guid,
     text |-> text,
     position |-> 0,
     completed |-> FALSE,
     created_at |-> DatetimeNow(clock),
     completed_at |-> None]

\* mark_complete without its "if not self.completed" test
ToDoItem_mark_complete_Always(item, clock) ==
    [item EXCEPT !.completed = TRUE, !.completed_at = Some(DatetimeNow(clock))]

ToDoItem_mark_complete(item, clock) ==
    IF ~item.completed
    THEN [item EXCEPT !.completed = TRUE, !.completed_at = Some(DatetimeNow(clock))]
    ELSE item

ToDoItem_to_dict(item) ==
    [guid |-> item.guid,
     text |-> item.text,
     position |-> item.position,
     completed |-> item.completed,
     created_at |-> isoformat(item.created_at),
     completed_at |-> OptIsoformat(item.completed_at)]

ToDoItem_from_dict(data) ==
    [guid |-> data.guid,
     text |-> data.text,
     position |-> data.position,
     completed |-> data.completed,
     created_at |-> fromisoformat(data.created_at),
     completed_at |-> OptFromisoformat(data.completed_at)]

\* -------------------------------------------------------------------- lists

\* list.insert(i, x): a negative index counts from the end, and an index
\* outside the list is clamped to its ends
ListInsert(s, i, x) ==
    LET n == Len(s)
        k == IF i < 0
             THEN (IF i + n < 0 THEN 0 ELSE i + n)
             ELSE (IF i > n THEN n ELSE i)
    IN SubSeq(s, 1, k) \o <<x>> \o SubSeq(s, k + 1, n)

\* [x for x in s if x.guid != guid]
RECURSIVE WithoutGuid(_, _)
WithoutGuid(s, guid) ==
    IF s = <<>> THEN <<>>
    ELSE IF Head(s).guid # guid
         THEN <<Head(s)>> \o WithoutGuid(Tail(s), guid)
         ELSE WithoutGuid(Tail(s), guid)

\* next((x for x in s if x.guid == guid), None)
RECURSIVE FindGuid(_, _)
FindGuid(s, guid) ==
    IF s = <<>> THEN None
    ELSE IF Head(s).guid = guid THEN Some(Head(s)) ELSE FindGuid(Tail(s), guid)

\* list.remove(x): drops the first element equal to x
RECURSIVE ListRemove(_, _)
ListRemove(s, x) ==
    IF s = <<>> THEN <<>>
    ELSE IF Head(s) = x THEN Tail(s) ELSE <<Head(s)>> \o ListRemove(Tail(s), x)

\* for i, x in enumerate(s, start=1): x.position = i
Renumber(s) == [i \in 1..Len(s) |-> [s[i] EXCEPT !.position = i]]

\* a sort by position that is not stable: of equal positions, the later
\* element comes first
RECURSIVE SortedByPosition_TiesFirst(_)
SortedByPosition_TiesFirst(s) ==
    IF s = <<>> THEN <<>>
    ELSE LET rest == SortedByPosition_TiesFirst(SubSeq(s, 1, Len(s) - 1))
             x == s[Len(s)]
             k == Cardinality({i \in 1..Len(rest) : rest[i].position < x.position})
         IN SubSeq(rest, 1, k) \o <<x>> \o SubSeq(rest, k + 1, Len(rest))

\* sorted(s, key=lambda t: t.position): a stable sort
RECURSIVE SortedByPosition(_)
SortedByPosition(s) ==
    IF s = <<>> THEN <<>>
    ELSE LET rest == SortedByPosition(SubSeq(s, 1, Len(s) - 1))
             x == s[Len(s)]
             k == Cardinality({i \in 1..Len(rest) : rest[i].position <= x.position})
         IN SubSeq(rest, 1, k) \o <<x>> \o SubSeq(rest, k + 1, Len(rest))

\* -------------------------------------------------------------------- Task

Task_create(guid, title, position, state, deadline, created_by, responsible, description, clock) ==
    [guid |-> guid,
     title |-> title,
     position |-> position,
     state |-> state,
     deadline |-> deadline,
     created_at |-> DatetimeNow(clock),
     description |-> description,
     responsible |-> responsible,
     completed_at |-> None,
     created_by |-> created_by,
     todo |-> <<>>]

\* the checks of Task.create that raise ValueError
Task_create_valid(title, position) == title # "" /\ position >= 1

Task_mark_complete(task, clock) ==
    [task EXCEPT !.state = COMPLETED,
                 !.completed_at = Some(DatetimeNow(clock)),
                 !.todo = [i \in 1..Len(task.todo) |->
                              ToDoItem_mark_complete(task.todo[i], clock)]]

Task_add_todo_item(task, item) ==
    [task EXCEPT !.todo = Append(task.todo,
                                 [item EXCEPT !.position = Len(task.todo) + 1])]

Task_normalize_positions(todo) == Renumber(todo)

\* remove_todo_item without its _normalize_positions call
Task_remove_todo_item_NoNormalize(task, item_guid) ==
    [task EXCEPT !.todo = WithoutGuid(task.todo, item_guid)]

Task_remove_todo_item(task, item_guid) ==
    [task EXCEPT !.todo = Task_normalize_positions(WithoutGuid(task.todo, item_guid))]

\* reorder_item inserting at index new_position instead of new_position - 1
Task_reorder_item_OffByOne(task, item_guid, new_position) ==
    LET item == FindGuid(task.todo, item_guid)[1]
        removed == ListRemove(task.todo, item)
    IN [task EXCEPT !.todo =
            Task_normalize_positions(ListInsert(removed, new_position, item))]

\* reorder_item once the item is known to be present
Task_reorder_item(task, item_guid, new_position) ==
    LET item == FindGuid(task.todo, item_guid)[1]
        removed == ListRemove(task.todo, item)
    IN [task EXCEPT !.todo =
            Task_normalize_positions(ListInsert(removed, new_position - 1, item))]

\* get_todo_by_position: the first item with that position, None for the
\* ValueError
RECURSIVE Task_get_todo_by_position(_, _)
Task_get_todo_by_position(todo, position) ==
    IF todo = <<>> THEN None
    ELSE IF Head(todo).position = position THEN Some(Head(todo))
         ELSE Task_get_todo_by_position(Tail(todo), position)

\* to_dict that writes no completed_at
Task_to_dict_NoCompletedAt(task) ==
    [guid |-> task.guid,
     title |-> task.title,
     position |-> task.position,
     state |-> StateValue(task.state),
     deadline |-> isoformat(task.deadline),
     created_at |-> isoformat(task.created_at),
     completed_at |-> None,
     created_by |-> task.created_by,
     responsible |-> task.responsible,
     description |-> task.description,
     todo |-> [i \in 1..Len(task.todo) |-> ToDoItem_to_dict(task.todo[i])]]

Task_to_dict(task) ==
    [guid |-> task.guid,
     title |-> task.title,
     position |-> task.position,
     state |-> StateValue(task.state),
     deadline |-> isoformat(task.deadline),
     created_at |-> isoformat(task.created_at),
     completed_at |-> OptIsoformat(task.completed_at),
     created_by |-> task.created_by,
     responsible |-> task.responsible,
     description |-> task.description,
     todo |-> [i \in 1..Len(task.todo) |-> ToDoItem_to_dict(task.todo[i])]]

Task_from_dict(data) ==
    [guid |-> data.guid,
     title |-> data.title,
     position |-> data.position,
     state |-> StateOfValue(data.state),
     deadline |-> fromisoformat(data.deadline),
     created_at |-> fromisoformat(data.created_at),
     description |-> data.description,
     responsible |-> data.responsible,
     completed_at |-> OptFromisoformat(data.completed_at),
     created_by |-> data.created_by,
     todo |-> [i \in 1..Len(data.todo) |-> ToDoItem_from_dict(data.todo[i])]]

\* ------------------------------------------------------ JsonTaskRepository

\* _read_all, given the file's content
read_all(f) == [i \in 1..Len(f) |-> Task_from_dict(f[i])]

\* _write_all: the file's new content
write_all(tasks) == [i \in 1..Len(tasks) |-> Task_to_dict(tasks[i])]

list_all(f) == read_all(f)

get_by_guid(f, guid) == FindGuid(read_all(f), guid)

repo_add(f, task) == write_all(Append(read_all(f), task))

\* whether update finds the task (otherwise ValueError)
repo_update_found(f, task) == FindGuid(read_all(f), task.guid) # None

\* update: the first task with the guid is replaced
repo_update(f, task) ==
    LET tasks == read_all(f)
        i == CHOOSE j \in 1..Len(tasks) :
                 /\ tasks[j].guid = task.guid
                 /\ \A k \in 1..(j - 1) : tasks[k].guid # task.guid
    IN write_all([tasks EXCEPT ![i] = task])

repo_delete(f, guid) == write_all(WithoutGuid(read_all(f), guid))

repo_count(f) == Len(read_all(f))

repo_update_all(tasks) == write_all(tasks)

repo_replace_all(tasks) == write_all(tasks)

\* ------------------------------------------------------------- TaskService

\* the guids in use, and uuid4()
TaskGuidsUsed == {file[i].guid : i \in 1..Len(file)}
ItemGuidsUsed ==
    UNION {{file[i].todo[j].guid : j \in 1..Len(file[i].todo)} : i \in 1..Len(file)}
NewTaskGuid == CHOOSE g \in TaskGuids : g \notin TaskGuidsUsed
NewItemGuid == CHOOSE g \in ItemGuids : g \notin ItemGuidsUsed

Ret(op, result) == [op |-> op, result |-> result]

\* what the calls are made with
Titles == {"", "t"}
Texts == {"", "x"}
StateInputs == {PENDING, COMPLETED}
Deadlines == {Datetime(UsecPerSec, FALSE)}

\* update_task's keyword arguments: each field is given (Some) or not (None);
\* bogus stands for a name that is no attribute of Task
Kwargs(position, state, completed_at, bogus) ==
    [position |-> position, state |-> state, completed_at |-> completed_at,
     bogus |-> bogus]

KwargsPosition ==
    {Kwargs(Some(p), None, None, FALSE) : p \in TaskPositions}
        \cup {Kwargs(None, None, None, TRUE)}

KwargsLife ==
    {Kwargs(None, s, c, FALSE) :
        s \in {None} \cup {Some(x) : x \in StateInputs},
        c \in {None, Some(None), Some(Some(DatetimeNow(now)))}}
        \cup {Kwargs(None, None, None, TRUE)}

\* _normalize_all_positions that sorts and does not renumber
_normalize_all_positions_NoRenumber(f) ==
    repo_update_all(SortedByPosition(list_all(f)))

_normalize_all_positions(f) ==
    repo_update_all(Renumber(SortedByPosition(list_all(f))))

\* cli "create": Task.create, then TaskService.create
Create(title, position, state, deadline) ==
    /\ Len(file) < MaxTasks
    /\ IF ~Task_create_valid(title, position)
       THEN /\ file' = file
            /\ last' = Ret("create", "ValueError")
       ELSE LET task == Task_create(NewTaskGuid, title, position, state, deadline,
                                    Some("cli"), None, None, now)
            IN /\ file' = _normalize_all_positions(repo_add(file, task))
               /\ last' = Ret("create", "ok")
    /\ UNCHANGED <<now, held>>

\* delete without its _normalize_all_positions call
Delete_NoNormalize(guid) ==
    /\ file' = repo_delete(file, guid)
    /\ last' = Ret("delete", "ok")
    /\ UNCHANGED <<now, held>>

Delete(guid) ==
    /\ file' = _normalize_all_positions(repo_delete(file, guid))
    /\ last' = Ret("delete", "ok")
    /\ UNCHANGED <<now, held>>

\* a call that raises before it writes
Raises(op, error) ==
    /\ last' = Ret(op, error)
    /\ UNCHANGED <<file, now, held>>

AddTodo(task_guid, text) ==
    /\ \E g \in ItemGuids : g \notin ItemGuidsUsed
    /\ LET found == get_by_guid(file, task_guid)
       IN IF found = None
          THEN Raises("add_todo", "ValueError")
          ELSE LET item == ToDoItem_create(NewItemGuid, text, now)
                   task == Task_add_todo_item(found[1], item)
               IN /\ file' = repo_update(file, task)
                  /\ last' = Ret("add_todo", "ok")
                  /\ UNCHANGED <<now, held>>

RemoveTodo(task_guid, item_position) ==
    LET found == get_by_guid(file, task_guid)
    IN IF found = None
       THEN Raises("remove_todo", "ValueError")
       ELSE LET item == Task_get_todo_by_position(found[1].todo, item_position)
            IN IF item = None
               THEN Raises("remove_todo", "ValueError")
               ELSE /\ file' = repo_update(file,
                                   Task_remove_todo_item(found[1], item[1].guid))
                    /\ last' = Ret("remove_todo", "ok")
                    /\ UNCHANGED <<now, held>>

ReorderTodo(task_guid, item_position, new_position) ==
    LET found == get_by_guid(file, task_guid)
    IN IF found = None
       THEN Raises("reorder_todo", "ValueError")
       ELSE LET item == Task_get_todo_by_position(found[1].todo, item_position)
            IN IF item = None
               THEN Raises("reorder_todo", "ValueError")
               ELSE /\ file' = repo_update(file,
                            Task_reorder_item(found[1], item[1].guid, new_position))
                    /\ last' = Ret("reorder_todo", "ok")
                    /\ UNCHANGED <<now, held>>

MarkTaskComplete(task_guid) ==
    LET found == get_by_guid(file, task_guid)
    IN IF found = None
       THEN Raises("mark_task_complete", "ValueError")
       ELSE /\ file' = repo_update(file, Task_mark_complete(found[1], now))
            /\ last' = Ret("mark_task_complete", "ok")
            /\ UNCHANGED <<now, held>>

MarkTodoComplete(task_guid, item_position) ==
    LET found == get_by_guid(file, task_guid)
    IN IF found = None
       THEN Raises("mark_todo_complete", "ValueError")
       ELSE LET task == found[1]
                item == Task_get_todo_by_position(task.todo, item_position)
            IN IF item = None
               THEN Raises("mark_todo_complete", "ValueError")
               ELSE LET i == CHOOSE j \in 1..Len(task.todo) : task.todo[j] = item[1]
                        done == [task EXCEPT
                                    !.todo[i] = ToDoItem_mark_complete(item[1], now)]
                    IN /\ file' = repo_update(file, done)
                       /\ last' = Ret("mark_todo_complete", "ok")
                       /\ UNCHANGED <<now, held>>

\* the setattr loop of update_task
ApplyKwargs(task, kw) ==
    LET t1 == IF kw.position # None THEN [task EXCEPT !.position = kw.position[1]]
              ELSE task
        t2 == IF kw.state # None THEN [t1 EXCEPT !.state = kw.state[1]] ELSE t1
    IN IF kw.completed_at # None THEN [t2 EXCEPT !.completed_at = kw.completed_at[1]]
       ELSE t2

\* the ValueError of update_task's consistency check, by its message
CompletedAtError == "ValueError: Cannot set 'completed_at'"

\* update_task that writes the task before its consistency check raises
UpdateTask_PersistInvalid(task_guid, kw) ==
    LET found == get_by_guid(file, task_guid)
    IN IF found = None
       THEN Raises("update_task", "ValueError")
       ELSE IF kw.bogus
       THEN Raises("update_task", "AttributeError")
       ELSE LET task == ApplyKwargs(found[1], kw)
            IN /\ file' = repo_update(
                              IF kw.position # None
                              THEN _normalize_all_positions(file) ELSE file,
                              task)
               /\ last' = Ret("update_task",
                              IF task.completed_at # None /\ task.state # COMPLETED
                              THEN CompletedAtError ELSE "ok")
               /\ UNCHANGED <<now, held>>

UpdateTask(task_guid, kw) ==
    LET found == get_by_guid(file, task_guid)
    IN IF found = None
       THEN Raises("update_task", "ValueError")
       ELSE IF kw.bogus
       THEN Raises("update_task", "AttributeError")
       ELSE LET task == ApplyKwargs(found[1], kw)
            IN IF task.completed_at # None /\ task.state # COMPLETED
               THEN Raises("update_task", CompletedAtError)
               ELSE /\ file' = repo_update(
                                   IF kw.position # None
                                   THEN _normalize_all_positions(file) ELSE file,
                                   task)
                    /\ last' = Ret("update_task", "ok")
                    /\ UNCHANGED <<now, held>>

SetState(task_guid, state) ==
    LET found == get_by_guid(file, task_guid)
    IN IF found = None
       THEN Raises("set_state", "ValueError")
       ELSE /\ file' = repo_update(file, [found[1] EXCEPT !.state = state])
            /\ last' = Ret("set_state", "ok")
            /\ UNCHANGED <<now, held>>

MoveTask(task_guid, new_position) ==
    LET tasks == list_all(file)
        found == get_by_guid(file, task_guid)
    IN IF found = None
       THEN Raises("move_task", "ValueError")
       ELSE LET moved == ListInsert(WithoutGuid(tasks, task_guid),
                                    new_position - 1, found[1])
            IN /\ file' = repo_replace_all(Renumber(moved))
               /\ last' = Ret("move_task", "ok")
               /\ UNCHANGED <<now, held>>

\* the characters of the titles and keywords in use
Chars(s) ==
    CASE s = "" -> <<>>
      [] s = "t" -> <<"t">>
      [] s = "T" -> <<"T">>
      [] s = "u" -> <<"u">>
      [] s = "Tu" -> <<"T", "u">>

\* str.lower()
str_lower(cs) ==
    [i \in 1..Len(cs) |-> CASE cs[i] = "T" -> "t" [] cs[i] = "U" -> "u" [] OTHER -> cs[i]]

\* sub in cs, for strings
str_in(sub, cs) ==
    \E i \in 0..(Len(cs) - Len(sub)) : SubSeq(cs, i + 1, i + Len(sub)) = sub

\* timedelta(days=days), in ticks
timedelta(days) == days * SecPerDay * UsecPerSec

\* datetime.now(timezone.utc); the local time zone is UTC
DatetimeNowUtc(clock) == Datetime(clock, TRUE)

\* a <= b on datetimes raises TypeError when one is naive and the other aware
CanCompare(a, b) == a.aware = b.aware

\* "tasks or self.repo.list_all()": tasks is None or Some(list), and an empty
\* list is as false as None
TasksOrAll(f, tasks) ==
    IF tasks # None /\ tasks[1] # <<>> THEN tasks[1] ELSE list_all(f)

filter_by_state(f, state, tasks) ==
    SelectSeq(TasksOrAll(f, tasks), LAMBDA t : t.state = state)

filter_by_title(f, keyword, tasks) ==
    SelectSeq(TasksOrAll(f, tasks),
              LAMBDA t : str_in(str_lower(Chars(keyword)), str_lower(Chars(t.title))))

\* the comparison "now <= t.deadline" is made for every task of the list
filter_due_soon_raises(f, tasks, clock) ==
    \E i \in 1..Len(TasksOrAll(f, tasks)) :
        ~CanCompare(DatetimeNowUtc(clock), TasksOrAll(f, tasks)[i].deadline)

filter_due_soon(f, days, tasks, clock) ==
    SelectSeq(TasksOrAll(f, tasks),
              LAMBDA t : /\ DatetimeNowUtc(clock).ticks <= t.deadline.ticks
                         /\ t.deadline.ticks <= DatetimeNowUtc(clock).ticks + timedelta(days))

\* the filters return a list to the caller
FilterByState(state, tasks) ==
    /\ held' = filter_by_state(file, state, tasks)
    /\ last' = Ret("filter_by_state", "ok")
    /\ UNCHANGED <<file, now>>

FilterByTitle(keyword, tasks) ==
    /\ held' = filter_by_title(file, keyword, tasks)
    /\ last' = Ret("filter_by_title", "ok")
    /\ UNCHANGED <<file, now>>

FilterDueSoon(days, tasks) ==
    IF filter_due_soon_raises(file, tasks, now)
    THEN Raises("filter_due_soon", "TypeError")
    ELSE /\ held' = filter_due_soon(file, days, tasks, now)
         /\ last' = Ret("filter_due_soon", "ok")
         /\ UNCHANGED <<file, now>>

\* time passes
Tick ==
    /\ now < MaxClock
    /\ now' = now + 1
    /\ UNCHANGED <<file, last, held>>

\* ---------------------------------------------------------- specifications

\* Spec: the collection of tasks and its ordering
Init ==
    /\ file = <<>>
    /\ now = 0
    /\ last = Ret("init", "ok")
    /\ held = None

Next ==
    \/ \E t \in Titles, p \in TaskPositions, d \in Deadlines : Create(t, p, PENDING, d)
    \/ \E g \in TaskGuids : Delete(g)
    \/ \E g \in TaskGuids, kw \in KwargsPosition : UpdateTask(g, kw)
    \/ \E g \in TaskGuids, np \in TaskNewPositions : MoveTask(g, np)

Spec == Init /\ [][Next]_vars

\* the store after cli "create" of one task: the one-task specifications
\* start here; guid 1 is the task, guid 2 is no task
OneTaskGuids == {1, 2}

InitOneTask ==
    /\ now = 0
    /\ \E s \in StateInputs, d \in Deadlines :
          file = _normalize_all_positions(
                     repo_add(<<>>, Task_create(1, "t", 1, s, d, Some("cli"), None,
                                                None, now)))
    /\ last = Ret("create", "ok")
    /\ held = None

\* SpecTodo: the ordering of one task's items
NextTodo ==
    \/ \E g \in OneTaskGuids : AddTodo(g, "x")
    \/ \E g \in OneTaskGuids, ip \in ItemPositions : RemoveTodo(g, ip)
    \/ \E g \in OneTaskGuids, ip \in ItemPositions, np \in ItemNewPositions :
          ReorderTodo(g, ip, np)
    \/ \E g \in OneTaskGuids : MarkTaskComplete(g)

SpecTodo == InitOneTask /\ [][NextTodo]_vars

\* SpecLife: completion of one task and of its items, as time passes
NextLife ==
    \/ \E g \in OneTaskGuids, x \in Texts :
          Cardinality(ItemGuidsUsed) < MaxLifeItems /\ AddTodo(g, x)
    \/ \E g \in OneTaskGuids, ip \in 1..MaxLifeItems : RemoveTodo(g, ip)
    \/ \E g \in OneTaskGuids, ip \in 1..MaxLifeItems : MarkTodoComplete(g, ip)
    \/ \E g \in OneTaskGuids : MarkTaskComplete(g)
    \/ \E g \in OneTaskGuids, s \in StateInputs : SetState(g, s)
    \/ \E g \in OneTaskGuids, kw \in KwargsLife : UpdateTask(g, kw)
    \/ Tick

SpecLife == InitOneTask /\ [][NextLife]_vars

\* SpecDone: one task and its items are completed and updated, as time
\* passes
MaxDoneItems == 2    \* items of the task (SpecDone)

NextDone ==
    \/ \E g \in OneTaskGuids :
          Cardinality(ItemGuidsUsed) < MaxDoneItems /\ AddTodo(g, "x")
    \/ \E g \in OneTaskGuids, ip \in 1..MaxDoneItems : MarkTodoComplete(g, ip)
    \/ \E g \in OneTaskGuids : MarkTaskComplete(g)
    \/ \E g \in OneTaskGuids, s \in StateInputs : SetState(g, s)
    \/ \E g \in OneTaskGuids, kw \in KwargsLife : UpdateTask(g, kw)
    \/ Tick

SpecDone == InitOneTask /\ [][NextDone]_vars

\* SpecFilter: cli "create" fills the store and cli "list" filters it; a
\* filter is called without a list, or with the list the last filter returned
FilterTitles == {"t", "Tu"}
Keywords == {"", "T", "u"}
FilterDeadlines ==
    {Datetime(0, TRUE), Datetime(MaxClock, TRUE), Datetime(UsecPerSec, FALSE)}
Days == {0, 1}
ProvidedLists == {None, Some(held)}

NextFilter ==
    \/ \E t \in FilterTitles, s \in StateInputs, d \in FilterDeadlines :
          Len(file) < MaxFilterTasks /\ Create(t, repo_count(file) + 1, s, d)
    \/ \E s \in StateInputs, tasks \in ProvidedLists : FilterByState(s, tasks)
    \/ \E k \in Keywords, tasks \in ProvidedLists : FilterByTitle(k, tasks)
    \/ \E n \in Days, tasks \in ProvidedLists : FilterDueSoon(n, tasks)
    \/ Tick

SpecFilter == Init /\ [][NextFilter]_vars

\* SpecRT: a caller of the repository (main.py) that builds a Task, adds it,
\* then changes it and writes it back; the tasks are drawn from every state
\* and every optional field present or absent
RTDatetimes == {Datetime(0, FALSE), Datetime(MaxClock, TRUE)}
RTOptDatetimes == {None} \cup {Some(d) : d \in RTDatetimes}
RTOptStrings == {None, Some("s")}

MaxRTItems == 1

RTItems ==
    {[guid |-> 1, text |-> "x", position |-> 1, completed |-> c # None,
      created_at |-> d, completed_at |-> c] :
        d \in RTDatetimes, c \in RTOptDatetimes}

RECURSIVE RTTodos(_)
RTTodos(n) ==
    IF n = 0 THEN {<<>>}
    ELSE RTTodos(n - 1)
             \cup {Append(t, [i EXCEPT !.guid = n, !.position = n]) :
                      t \in {u \in RTTodos(n - 1) : Len(u) = n - 1}, i \in RTItems}

\* the Task objects the caller holds: guid 2, next to the stored task 1
RTTasks ==
    {[guid |-> 2, title |-> "u", position |-> 2, state |-> s, deadline |-> d,
      created_at |-> Datetime(0, FALSE), description |-> o, responsible |-> None,
      completed_at |-> c, created_by |-> o, todo |-> t] :
        s \in State, d \in RTDatetimes, c \in RTOptDatetimes, o \in RTOptStrings,
        t \in RTTodos(MaxRTItems)}

\* what the caller may change on the object before writing it back
RTChanges(task) ==
    {[task EXCEPT !.state = s] : s \in State}
        \cup {[task EXCEPT !.completed_at = c] : c \in RTOptDatetimes}
        \cup {[task EXCEPT !.description = o] : o \in RTOptStrings}
        \cup {[task EXCEPT !.todo = t] : t \in RTTodos(MaxRTItems)}

InitRT ==
    /\ now = 0
    /\ \E s \in StateInputs, d \in Deadlines :
          file = _normalize_all_positions(
                     repo_add(<<>>, Task_create(1, "t", 1, s, d, Some("cli"), None,
                                                None, now)))
    /\ last = Ret("create", "ok")
    /\ held \in {Some(t) : t \in RTTasks}

\* repo.add(task)
RepoAdd ==
    /\ get_by_guid(file, held[1].guid) = None
    /\ file' = repo_add(file, held[1])
    /\ last' = Ret("repo.add", "ok")
    /\ UNCHANGED <<now, held>>

\* the caller changes the object, then repo.update(task)
RepoUpdate(task) ==
    /\ held' = Some(task)
    /\ IF repo_update_found(file, task)
       THEN /\ file' = repo_update(file, task)
            /\ last' = Ret("repo.update", "ok")
       ELSE /\ file' = file
            /\ last' = Ret("repo.update", "ValueError")
    /\ UNCHANGED now

NextRT ==
    \/ RepoAdd
    \/ \E t \in RTChanges(held[1]) : RepoUpdate(t)

SpecRT == InitRT /\ [][NextRT]_vars

\* ------------------------------------------------------------------ claims

\* the stored tasks, as _read_all returns them
Tasks == read_all(file)

\* the guids of a sequence of tasks or items, in order
GuidsOf(s) == [i \in 1..Len(s) |-> s[i].guid]

\* a sequence of guids without guid g
SeqWithout(gs, g) == SelectSeq(gs, LAMBDA x : x # g)

\* the positions of a sequence of tasks or items are 1..N, each once
PositionsAreOneToN(s) ==
    \A p \in 1..Len(s) : Cardinality({i \in 1..Len(s) : s[i].position = p}) = 1

\* C1: after any sequence of add / remove / reorder calls on a task that
\* started with no items, the item stored at index i has position i + 1
\* (0-based), so the positions are exactly 1..N without duplicates or gaps.
C1_TodoPositionsContiguous ==
    \A i \in 1..Len(Tasks) :
        /\ PositionsAreOneToN(Tasks[i].todo)
        /\ \A j \in 1..Len(Tasks[i].todo) : Tasks[i].todo[j].position = j

\* a removal has just acted on a task whose items had been reordered
C1_Witness ==
    /\ last = Ret("remove_todo", "ok")
    /\ Len(Tasks) = 1
    /\ Len(Tasks[1].todo) = 2
    /\ Tasks[1].todo[1].guid > Tasks[1].todo[2].guid

\* C7: reorder_todo of a present item to a target 1 <= p <= N, in any state
\* of the task, gives the sequence with the item removed and put back at
\* slot p: the moved item has position p, the others keep their order, and
\* nothing but positions changes.
C7_ReorderInRange ==
    [][last' = Ret("reorder_todo", "ok") =>
          \A ip \in ItemPositions, np \in ItemNewPositions :
              LET old == Tasks[1].todo
                  new == read_all(file')[1].todo
              IN (/\ 1 <= np
                  /\ np <= Len(old)
                  /\ ReorderTodo(1, ip, np))
                 => /\ Len(new) = Len(old)
                    /\ new[np].guid = old[ip].guid
                    /\ new[np].position = np
                    /\ SeqWithout(GuidsOf(new), old[ip].guid)
                           = SeqWithout(GuidsOf(old), old[ip].guid)
                    /\ \A k \in 1..Len(new) :
                           \E j \in 1..Len(old) : new[k] = [old[j] EXCEPT !.position = k]
                    /\ read_all(file')[1] = [Tasks[1] EXCEPT !.todo = new]]_vars

\* a reorder has just moved an item of a completed task with three items to
\* the front
C7_Witness ==
    /\ last = Ret("reorder_todo", "ok")
    /\ Len(Tasks) = 1
    /\ Tasks[1].state = COMPLETED
    /\ GuidsOf(Tasks[1].todo) = <<2, 1, 3>>

\* C8: reorder clamps: a target <= 1 (0 and negatives included) leaves the
\* moved item at position 1, a target >= N leaves it at position N.
C8_ReorderClamps ==
    [][last' = Ret("reorder_todo", "ok") =>
          \A ip \in ItemPositions, np \in ItemNewPositions :
              LET old == Tasks[1].todo
                  new == read_all(file')[1].todo
              IN ReorderTodo(1, ip, np)
                 => /\ np <= 1 => new[1].guid = old[ip].guid
                    /\ np >= Len(old) => new[Len(old)].guid = old[ip].guid]_vars

\* C2: right after create, delete or move_task has returned successfully the
\* positions of the M stored tasks are exactly 1..M, whatever position was
\* asked for and whatever the positions were before.
C2_CollectionPositionsContiguous ==
    (last.result = "ok" /\ last.op \in {"create", "delete", "move_task"})
        => PositionsAreOneToN(Tasks)

\* a create has just filled the store, and the task stored first is not the
\* one created first: the stored order is the order by position
C2_Witness ==
    /\ last = Ret("create", "ok")
    /\ Len(Tasks) = MaxTasks
    /\ Tasks[1].guid = MaxTasks
    /\ PositionsAreOneToN(Tasks)

\* C3: once update_task with a position has returned, the stored positions
\* are exactly 1..M.
C3_UpdatePositionRenormalizes ==
    [][last' = Ret("update_task", "ok") =>
          \A g \in TaskGuids, kw \in KwargsPosition :
              (kw.position # None /\ UpdateTask(g, kw))
                  => PositionsAreOneToN(read_all(file'))]_vars

\* C4: from_dict(to_dict(t)) = t for the task the caller wrote, field by
\* field and item by item, and get_by_guid reads back what add / update wrote.
C4_RoundTrip ==
    (last.result = "ok" /\ last.op \in {"repo.add", "repo.update"})
        => /\ Task_from_dict(Task_to_dict(held[1])) = held[1]
           /\ get_by_guid(file, held[1].guid) = held

\* an update has just written a task that is not COMPLETED, has a
\* completed_at with an offset, and an item that is not completed
C4_Witness ==
    /\ last = Ret("repo.update", "ok")
    /\ held[1].state = PAUSED
    /\ held[1].completed_at = Some(Datetime(MaxClock, TRUE))
    /\ held[1].description = None
    /\ Len(held[1].todo) = 1
    /\ held[1].todo[1].completed_at = None
    /\ Len(file) = 2

\* C5: completed_at is present only if state = COMPLETED, for every stored
\* task.
C5_CompletedAtOnlyIfCompleted ==
    \A i \in 1..Len(Tasks) :
        Tasks[i].completed_at # None => Tasks[i].state = COMPLETED

\* C6: state = COMPLETED implies every item of the task is completed.
C6_CompletedImpliesItemsCompleted ==
    \A i \in 1..Len(Tasks) :
        Tasks[i].state = COMPLETED
            => \A j \in 1..Len(Tasks[i].todo) : Tasks[i].todo[j].completed

\* C9: ToDoItem.create rejects an empty text, so no stored item has one.
C9_NoEmptyText ==
    \A i \in 1..Len(Tasks) :
        \A j \in 1..Len(Tasks[i].todo) : Tasks[i].todo[j].text # ""

\* C10: mark_complete called again on the task it has just completed, at a
\* later clock value or not, changes nothing that is stored.
C10_MarkCompleteIdempotent ==
    [][(last = Ret("mark_task_complete", "ok") /\ MarkTaskComplete(1))
          => file' = file]_vars

\* C11: Task.mark_complete on a task in any state leaves state = COMPLETED
\* and completed_at set, and every item completed with a completed_at; an
\* item that was completed before keeps the completed_at it had, so for
\* every item completed_at is present exactly when the item is completed.
C11_MarkCompleteCascades ==
    [][last' = Ret("mark_task_complete", "ok") =>
          (MarkTaskComplete(1) =>
              LET old == Tasks[1]
                  new == read_all(file')[1]
              IN /\ new.state = COMPLETED
                 /\ new.completed_at # None
                 /\ Len(new.todo) = Len(old.todo)
                 /\ \A j \in 1..Len(new.todo) :
                        /\ new.todo[j].completed
                        /\ new.todo[j].completed_at # None
                        /\ old.todo[j].completed
                               => new.todo[j].completed_at = old.todo[j].completed_at
                        /\ new.todo[j] = [old.todo[j] EXCEPT
                                             !.completed = TRUE,
                                             !.completed_at = new.todo[j].completed_at])]_vars

\* mark_complete has just completed a task with two items at the last tick:
\* the first item had been completed at tick 0 and keeps that time, the
\* second is completed with the task
C11_Witness ==
    /\ last = Ret("mark_task_complete", "ok")
    /\ Len(Tasks) = 1
    /\ Tasks[1].state = COMPLETED
    /\ Tasks[1].completed_at = Some(DatetimeNow(MaxClock))
    /\ Len(Tasks[1].todo) = 2
    /\ Tasks[1].todo[1].completed_at = Some(DatetimeNow(0))
    /\ Tasks[1].todo[2].completed_at = Some(DatetimeNow(MaxClock))

\* C12: filter_by_state, filter_by_title and filter_due_soon never modify
\* the store, and called with a task list, of any length, the empty list
\* included, they return the tasks of that list that satisfy the filter, in
\* order, and no task of the store.
C12_FiltersUseProvidedList ==
    [][/\ last'.op \in {"filter_by_state", "filter_by_title", "filter_due_soon"}
           => file' = file
       /\ \A s \in StateInputs :
              FilterByState(s, Some(held))
                  => held' = SelectSeq(held, LAMBDA t : t.state = s)
       /\ \A k \in Keywords :
              FilterByTitle(k, Some(held))
                  => held' = SelectSeq(held,
                         LAMBDA t : str_in(str_lower(Chars(k)), str_lower(Chars(t.title))))
       /\ \A n \in Days :
              (FilterDueSoon(n, Some(held)) /\ last'.result = "ok")
                  => held' = SelectSeq(held,
                         LAMBDA t : now <= t.deadline.ticks
                                       /\ t.deadline.ticks <= now + timedelta(n))]_vars

\* C13, as claimed: when update_task applies fields that leave completed_at
\* present while state is not COMPLETED, the call fails with a validation
\* error and the invalid mutation is persisted all the same.
C13_InvalidUpdatePersisted ==
    [][last'.op = "update_task" =>
          \A kw \in KwargsLife :
              LET task == ApplyKwargs(Tasks[1], kw)
              IN (/\ ~kw.bogus
                  /\ task.completed_at # None
                  /\ task.state # COMPLETED
                  /\ UpdateTask(1, kw))
                 => /\ last' = Ret("update_task", CompletedAtError)
                    /\ read_all(file')[1] = task]_vars

\* C13, amended: when update_task applies fields that leave completed_at
\* present while state is not COMPLETED, the call fails with a ValueError
\* and nothing is persisted: the store is what it was before the call.
C13_InvalidUpdateRejected ==
    [][last'.op = "update_task" =>
          \A kw \in KwargsLife :
              LET task == ApplyKwargs(Tasks[1], kw)
              IN (/\ ~kw.bogus
                  /\ task.completed_at # None
                  /\ task.state # COMPLETED
                  /\ UpdateTask(1, kw))
                 => /\ last' = Ret("update_task", CompletedAtError)
                    /\ file' = file]_vars

\* update_task has just failed its consistency check on a task that is
\* stored PENDING without a completed_at: the completed_at it was called
\* with is not in the store
C13_Witness ==
    /\ last = Ret("update_task", CompletedAtError)
    /\ Len(Tasks) = 1
    /\ Tasks[1].state = PENDING
    /\ Tasks[1].completed_at = None

\* the tasks s are stored in the order of their positions 1..N
StoredInPositionOrder(s) == \A i \in 1..Len(s) : s[i].position = i

\* the tasks of new are tasks of old, equal but for the position, and two of
\* them are ordered by position in new as they are in old
KeepsTasksAndOrder(old, new) ==
    /\ \A i \in 1..Len(new) :
           \E a \in 1..Len(old) : new[i] = [old[a] EXCEPT !.position = new[i].position]
    /\ \A i, j \in 1..Len(new) :
           \A a, b \in 1..Len(old) :
               (old[a].guid = new[i].guid /\ old[b].guid = new[j].guid)
                   => (old[a].position < old[b].position
                          <=> new[i].position < new[j].position)

\* C14: delete(guid) of a stored task, in a collection with positions 1..M,
\* removes that task and no other and renumbers the rest to 1..M-1 in their
\* relative order by position; no other field of a task changes.
C14_DeleteRenumbers ==
    [][last' = Ret("delete", "ok") =>
          \A g \in TaskGuids :
              LET old == Tasks
                  new == read_all(file')
              IN (/\ get_by_guid(file, g) # None
                  /\ PositionsAreOneToN(old)
                  /\ Delete(g))
                 => /\ Len(new) = Len(old) - 1
                    /\ {new[i].guid : i \in 1..Len(new)}
                           = {old[i].guid : i \in 1..Len(old)} \ {g}
                    /\ PositionsAreOneToN(new)
                    /\ KeepsTasksAndOrder(old, new)]_vars

\* a delete has just removed the second of three tasks: the first and the
\* third are left, at positions 1 and 2
C14_Witness ==
    /\ last = Ret("delete", "ok")
    /\ GuidsOf(Tasks) = <<1, 3>>
    /\ StoredInPositionOrder(Tasks)

\* C15: in every state the service operations reach, update_task of a
\* position included, move_task(guid, p) with 1 <= p <= M gives the ordering
\* by position with the task taken out and put back at slot p: the moved
\* task has position p, the other tasks keep their relative order by
\* position, and no task is added or dropped.
C15_MoveTaskByPosition ==
    [][last' = Ret("move_task", "ok") =>
          \A g \in TaskGuids, np \in TaskNewPositions :
              LET old == Tasks
                  new == read_all(file')
              IN (/\ 1 <= np
                  /\ np <= Len(old)
                  /\ MoveTask(g, np))
                 => /\ Len(new) = Len(old)
                    /\ PositionsAreOneToN(new)
                    /\ \A i \in 1..Len(new) :
                           /\ \E a \in 1..Len(old) :
                                  new[i] = [old[a] EXCEPT !.position = new[i].position]
                           /\ new[i].guid = g => new[i].position = np
                    /\ \A i, j \in 1..Len(new) :
                           \A a, b \in 1..Len(old) :
                               (/\ old[a].guid = new[i].guid
                                /\ old[b].guid = new[j].guid
                                /\ g \notin {old[a].guid, old[b].guid}
                                /\ old[a].position < old[b].position)
                                   => new[i].position < new[j].position]_vars

\* C16: create takes the requested position p as advisory: from a
\* collection with positions 1..M stored in position order, the new task
\* ends right after every task that had a position <= p and before every
\* task that had a position > p, that is at p + 1 when 1 <= p <= M and at
\* M + 1 when p > M, and the tasks that were there keep their relative order.
C16_CreatePositionAdvisory ==
    [][last' = Ret("create", "ok") =>
          \A t \in Titles, p \in TaskPositions, d \in Deadlines :
              LET old == Tasks
                  new == read_all(file')
                  M == Len(old)
                  k == IF p <= M THEN p + 1 ELSE M + 1
              IN (/\ StoredInPositionOrder(old)
                  /\ Create(t, p, PENDING, d))
                 => /\ Len(new) = M + 1
                    /\ StoredInPositionOrder(new)
                    /\ new[k].guid = NewTaskGuid
                    /\ new[k].title = t
                    /\ \A i \in 1..M :
                           /\ old[i].position <= p => new[i] = old[i]
                           /\ old[i].position > p
                                  => new[i + 1] = [old[i] EXCEPT !.position = i + 1]]_vars

\* a create with position 1 has just put the third task between the two
\* that were stored
C16_Witness ==
    /\ last = Ret("create", "ok")
    /\ GuidsOf(Tasks) = <<1, 3, 2>>
    /\ StoredInPositionOrder(Tasks)

====
